---- MODULE Spec2Model ----
(***************************************************************************)
(* CoastSat-CWL: the per-site shoreline pipeline around the shared         *)
(* transect table (transects_extended.geojson) and the per-site chainage   *)
(* history (transect_time_series.csv).                                     *)
(*                                                                         *)
(* Tables are pandas/geopandas frames indexed by transect id: a record     *)
(* [ids, cols, val] with val[id][col] an integer cell, NaN for a null.     *)
(* Slopes and intervals are in thousandths (0.085 is 85).                  *)
(***************************************************************************)
EXTENDS Integers, Sequences, FiniteSets, TLC

VARIABLES
    transects,   \* the shared table file transects_extended.geojson
    base_gdf,    \* aggregate_transects: the base frame held in memory
    agg,         \* aggregate_transects: [pc, k, upd] position, files seen, update_columns
    last,        \* the operation that ran last: [op, site, before, frag, est, sites]
    lastval,     \* per (id, col): the last non-null value a frame of this aggregation carried
    site_out,    \* per-site output files of the CWL tools
    fresh,       \* per site: the output file was computed from the present shared table
    store,       \* one site's transect_time_series.csv: rows [dates, satname, chainage], <<>> no file
    run,         \* the observation stage's last run: [pc, op, forced, force_date, start, min_date, end_date, had, new, got, exit]
    args,        \* the inputs of the function under study: [fn, ...]
    result       \* what it returned or left behind: [fn, ...]

tableVars == <<transects, base_gdf, agg, last, lastval, site_out, fresh>>
storeVars == <<store, run>>
fnVars == <<args, result>>
vars == <<transects, base_gdf, agg, last, lastval, site_out, fresh, store, run, args, result>>

(***************************************************************************)
(* Bounds of the model.                                                    *)
(***************************************************************************)
MaxVal == 2          \* numeric cells of the merge inputs range over NaN, 1..MaxVal
MaxFrags == 2        \* per-site files one aggregate_transects call is given

(***************************************************************************)
(* Cells, columns, transects.                                              *)
(***************************************************************************)
NaN == -1
NotNa(v) == v # NaN

Ids == {"t1", "t2", "t3"}
IdOrder == <<"t1", "t2", "t3">>
Sites == {1, 2}
SiteOf == [i \in Ids |-> IF i = "t3" THEN 2 ELSE 1]

Cols == {"site_id", "beach_slope", "cil", "ciu", "trend"}
\* select_dtypes(include=[np.number]): site_id is a string column
NumericCols == Cols \ {"site_id"}

NoTable == [ids |-> {}, cols |-> {}, val |-> <<>>]

MkTable(ids, cols, f(_, _)) ==
    [ids |-> ids, cols |-> cols, val |-> [i \in ids |-> [c \in cols |-> f(i, c)]]]

Cell(t, i, c) == t.val[i][c]

\* the frames with the given row keys and columns, site_id as SiteOf,
\* numeric cells over vals
TablesOver(idsets, colsets, vals) ==
    UNION { UNION { { [ids |-> I, cols |-> C, val |-> v] :
                        v \in [I -> { r \in [C -> vals \cup Sites] :
                                        \A c \in C : IF c = "site_id" THEN r[c] \in Sites
                                                     ELSE r[c] \in vals }] }
                    : C \in colsets } : I \in idsets }

WithSite(T) == { t \in T : \A i \in t.ids : "site_id" \in t.cols => t.val[i]["site_id"] = SiteOf[i] }

(***************************************************************************)
(* aggregate_transects: one iteration of the loop over the per-site files. *)
(***************************************************************************)
\* update_columns: [given |-> FALSE] is None
NoUpdateColumns == [given |-> FALSE, cols |-> {}]

UpdateCols(site_gdf, upd) ==
    IF upd.given THEN upd.cols ELSE site_gdf.cols \cap NumericCols

ColsToUpdate(base, site_gdf, upd) ==
    { c \in UpdateCols(site_gdf, upd) : c \in site_gdf.cols /\ c \in base.cols }

CommonIds(base, site_gdf) == base.ids \cap site_gdf.ids

\* base_gdf[cols] = site_gdf[cols]: a column assignment aligns on the index and
\* leaves NaN in every base row the per-site file does not have
AggregateFileAssign(base, site_gdf, upd) ==
    LET cols_to_update == ColsToUpdate(base, site_gdf, upd)
    IN  [base EXCEPT !.val =
            [i \in base.ids |-> [c \in base.cols |->
                IF c \in cols_to_update
                THEN (IF i \in site_gdf.ids THEN Cell(site_gdf, i, c) ELSE NaN)
                ELSE Cell(base, i, c)]]]

\* the pd.notna test of line 86 left out
AggregateFileNoNaCheck(base, site_gdf, upd) ==
    LET cols_to_update == ColsToUpdate(base, site_gdf, upd)
        common_ids == CommonIds(base, site_gdf)
    IN  [base EXCEPT !.val =
            [i \in base.ids |-> [c \in base.cols |->
                IF i \in common_ids /\ c \in cols_to_update
                THEN Cell(site_gdf, i, c)
                ELSE Cell(base, i, c)]]]

\* only null base cells are filled (combine_first): the first file wins
AggregateFileFirstWins(base, site_gdf, upd) ==
    LET cols_to_update == ColsToUpdate(base, site_gdf, upd)
        common_ids == CommonIds(base, site_gdf)
    IN  [base EXCEPT !.val =
            [i \in base.ids |-> [c \in base.cols |->
                IF i \in common_ids /\ c \in cols_to_update /\ NotNa(Cell(site_gdf, i, c))
                   /\ ~ NotNa(Cell(base, i, c))
                THEN Cell(site_gdf, i, c)
                ELSE Cell(base, i, c)]]]

\* a variant that adds the value of the file to the value of the base
AggregateFileAdding(base, site_gdf, upd) ==
    LET cols_to_update == ColsToUpdate(base, site_gdf, upd) \ {"site_id"}
        common_ids == CommonIds(base, site_gdf)
    IN  [base EXCEPT !.val =
            [i \in base.ids |-> [c \in base.cols |->
                IF i \in common_ids /\ c \in cols_to_update /\ NotNa(Cell(site_gdf, i, c))
                THEN (IF NotNa(Cell(base, i, c)) THEN Cell(base, i, c) + Cell(site_gdf, i, c)
                      ELSE Cell(site_gdf, i, c))
                ELSE Cell(base, i, c)]]]

AggregateFile(base, site_gdf, upd) ==
    LET cols_to_update == ColsToUpdate(base, site_gdf, upd)
        common_ids == CommonIds(base, site_gdf)
    IN  IF cols_to_update = {} THEN base
        ELSE IF common_ids = {} THEN base
        ELSE [base EXCEPT !.val =
                [i \in base.ids |-> [c \in base.cols |->
                    IF i \in common_ids /\ c \in cols_to_update /\ NotNa(Cell(site_gdf, i, c))
                    THEN Cell(site_gdf, i, c)
                    ELSE Cell(base, i, c)]]]

(***************************************************************************)
(* pandas: DataFrame.update, DataFrame.join (left), drop_duplicates.       *)
(***************************************************************************)
\* df.update(other): non-null cells of other, on the rows and columns of df
Update(df, other) ==
    [df EXCEPT !.val =
        [i \in df.ids |-> [c \in df.cols |->
            IF i \in other.ids /\ c \in other.cols /\ NotNa(Cell(other, i, c))
            THEN Cell(other, i, c)
            ELSE Cell(df, i, c)]]]

\* df.join(other[new_columns], how="left")
Join(df, other, new_columns) ==
    MkTable(df.ids, df.cols \cup new_columns,
            LAMBDA i, c : IF c \in df.cols THEN Cell(df, i, c)
                          ELSE IF i \in other.ids THEN Cell(other, i, c)
                          ELSE NaN)

Before(i, j) ==
    \E m, n \in 1..Len(IdOrder) : m < n /\ IdOrder[m] = i /\ IdOrder[n] = j

\* trends.drop_duplicates(): a row equal in every column to an earlier row is dropped
DropDuplicates(df) ==
    LET keep == { j \in df.ids : ~ \E i \in df.ids : Before(i, j) /\ df.val[i] = df.val[j] }
    IN  [ids |-> keep, cols |-> df.cols, val |-> [i \in keep |-> df.val[i]]]

\* the update of the shared table by the trend (or any stage) results
UpdateAndJoin(df, other) ==
    LET new_columns == other.cols \ df.cols
        updated == Update(df, other)
    IN  IF new_columns # {} THEN Join(updated, other, new_columns) ELSE updated

\* linear_models.py: transects.update(trends.drop_duplicates()), then the join
UpdateTransects(df, trends) ==
    LET new_columns == trends.cols \ df.cols
        updated == Update(df, DropDuplicates(trends))
    IN  IF new_columns # {} THEN Join(updated, trends, new_columns) ELSE updated

\* transects[transects.site_id == site_id]
\* a variant without the selection by site
AtSiteAll(df, site) == df

AtSite(df, site) ==
    LET ids == { i \in df.ids : Cell(df, i, "site_id") = site }
    IN  [ids |-> ids, cols |-> df.cols, val |-> [i \in ids |-> df.val[i]]]

(***************************************************************************)
(* Inputs of the merge specification.                                      *)
(***************************************************************************)
Vals == {NaN} \cup (1..MaxVal)
MergeCols == {"site_id", "trend"}
MergeColSets == { {"site_id"} \cup N : N \in SUBSET (MergeCols \ {"site_id"}) }

\* shared tables: the first transect or the first two, site_id and maybe the
\* numeric column
BaseIdSets == {{"t1"}, {"t1", "t2"}}
BaseTables == WithSite(TablesOver(BaseIdSets, MergeColSets, Vals))

\* per-site GeoJSON files handed to aggregate_transects: rows of the base,
\* rows the base lacks, or both
FrameIdSets == {{"t1"}, {"t3"}, {"t1", "t2"}, {"t1", "t3"}}
SiteFrames == WithSite(TablesOver(FrameIdSets, MergeColSets, Vals))

\* trend statistics keyed by transect id (the statistics stand as one column)
TrendFrames == TablesOver(FrameIdSets, {{"trend"}}, Vals)

UpdateColumnsChoices ==
    {NoUpdateColumns} \cup { [given |-> TRUE, cols |-> {c}] : c \in MergeCols }

NoLast == [op |-> "none", site |-> 0, before |-> NoTable, frag |-> NoTable, est |-> {}, sites |-> <<>>]
NoLastVal == [i \in Ids |-> [c \in Cols |-> NaN]]
NoFiles == [s \in Sites |-> NoTable]
NoArgs == [fn |-> "none"]
NoResult == [fn |-> "none"]

\* the default start_date, '1984-01-01', is day 0
DefaultStartDate == 0
NoRun == [pc |-> "idle", op |-> "none", forced |-> FALSE, force_date |-> DefaultStartDate,
          start |-> DefaultStartDate, min_date |-> DefaultStartDate,
          end_date |-> DefaultStartDate, had |-> 0, new |-> 0,
          got |-> "unknown", exit |-> "none"]

(***************************************************************************)
(* aggregate_transects                                                     *)
(***************************************************************************)
\* lines 33-43: read the base file; update_columns is the caller's
AggStart(upd) ==
    /\ agg.pc = "idle"
    /\ base_gdf' = transects
    /\ agg' = [pc |-> "loop", k |-> 0, upd |-> upd]
    /\ last' = NoLast
    /\ lastval' = NoLastVal
    /\ UNCHANGED <<transects, site_out, fresh>>
    /\ UNCHANGED <<storeVars, fnVars>>

\* lines 46-90: the next per-site file exists and is read
AggFile(site_gdf) ==
    /\ agg.pc = "loop"
    /\ agg.k < MaxFrags
    /\ base_gdf' = AggregateFile(base_gdf, site_gdf, agg.upd)
    /\ agg' = [agg EXCEPT !.k = @ + 1]
    /\ last' = [NoLast EXCEPT !.op = "aggregate", !.before = base_gdf, !.frag = site_gdf]
    /\ lastval' = [i \in Ids |-> [c \in Cols |->
                     IF i \in site_gdf.ids /\ c \in site_gdf.cols /\ NotNa(Cell(site_gdf, i, c))
                     THEN Cell(site_gdf, i, c) ELSE lastval[i][c]]]
    /\ UNCHANGED <<transects, site_out, fresh>>
    /\ UNCHANGED <<storeVars, fnVars>>

\* lines 48-50: the next per-site file does not exist
AggMissing ==
    /\ agg.pc = "loop"
    /\ agg.k < MaxFrags
    /\ agg' = [agg EXCEPT !.k = @ + 1]
    /\ last' = [NoLast EXCEPT !.op = "missing"]
    /\ UNCHANGED <<transects, base_gdf, lastval, site_out, fresh>>
    /\ UNCHANGED <<storeVars, fnVars>>

\* lines 37-40 and 92-96: the list is exhausted (or empty), the output is written
AggSave ==
    /\ agg.pc = "loop"
    /\ transects' = base_gdf
    /\ agg' = [pc |-> "idle", k |-> 0, upd |-> NoUpdateColumns]
    /\ base_gdf' = NoTable
    /\ last' = NoLast
    /\ lastval' = NoLastVal
    /\ UNCHANGED <<site_out, fresh>>
    /\ UNCHANGED <<storeVars, fnVars>>

(***************************************************************************)
(* linear_models.py and linear_models_wrapper.py: the merge of the trends  *)
(***************************************************************************)
\* calculate_linear_models, lines 162-179
LinearModels(trends) ==
    /\ agg.pc = "idle"
    /\ transects' = UpdateTransects(transects, trends)
    /\ last' = [NoLast EXCEPT !.op = "linear_models", !.before = transects, !.frag = trends]
    /\ UNCHANGED <<base_gdf, agg, lastval, site_out, fresh>>
    /\ UNCHANGED <<storeVars, fnVars>>

\* calculate_trends_for_site: trends is keyed by transects of the site that
\* have a column in the time series; no transects or no trends: the site's rows
LinearModelsSite(site, trends_df) ==
    /\ agg.pc = "idle"
    /\ LET transects_at_site == AtSite(transects, site)
       IN  /\ trends_df.ids \subseteq transects_at_site.ids
           /\ site_out' = [site_out EXCEPT ![site] =
                             IF transects_at_site.ids = {} \/ trends_df.ids = {}
                             THEN transects_at_site
                             ELSE UpdateAndJoin(transects_at_site, trends_df)]
           /\ fresh' = [fresh EXCEPT ![site] = TRUE]
           /\ last' = [NoLast EXCEPT !.op = "linear_models_site", !.site = site,
                                     !.before = transects_at_site, !.frag = trends_df]
    /\ UNCHANGED <<transects, base_gdf, agg, lastval>>
    /\ UNCHANGED <<storeVars, fnVars>>

NoTrends == [ids |-> {}, cols |-> {"trend"}, val |-> <<>>]

InitMerge ==
    /\ transects \in BaseTables
    /\ base_gdf = NoTable
    /\ agg = [pc |-> "idle", k |-> 0, upd |-> NoUpdateColumns]
    /\ last = NoLast
    /\ lastval = NoLastVal
    /\ site_out = NoFiles
    /\ fresh = [s \in Sites |-> FALSE]
    /\ args = NoArgs
    /\ result = NoResult
    /\ store = <<>>
    /\ run = NoRun

NextMerge ==
    \/ \E upd \in UpdateColumnsChoices : AggStart(upd)
    \/ \E site_gdf \in SiteFrames : AggFile(site_gdf)
    \/ AggMissing
    \/ AggSave
    \/ \E trends \in TrendFrames : LinearModels(trends)

SpecMerge == InitMerge /\ [][NextMerge]_vars

(***************************************************************************)
(* Slope estimation: slope_estimation_wrapper.py (one site, writes the     *)
(* site's rows) and slope_estimation.py (all sites, updates the table).    *)
(***************************************************************************)
\* what the time series and the fit give for one transect: no column in the
\* CSV, a column of NaN only, integrate_power_spectrum raising, or a slope
\* with its confidence interval
Fits == { [slope |-> 85, cil |-> 70, ciu |-> 100] }
NoFit == [slope |-> NaN, cil |-> NaN, ciu |-> NaN]
Outcomes ==
    { [kind |-> k, fit |-> NoFit] : k \in {"absent", "allnan", "fail"} }
        \cup { [kind |-> "ok", fit |-> f] : f \in Fits }

IdsAt(site) == { i \in Ids : SiteOf[i] = site }

\* df.loc[i, c] = v: the column is created (NaN elsewhere) when missing, and
\* so is the row
SetCell(df, i, c, v) ==
    MkTable(df.ids \cup {i}, df.cols \cup {c},
            LAMBDA j, d : IF j = i /\ d = c THEN v
                          ELSE IF j \in df.ids /\ d \in df.cols THEN Cell(df, j, d)
                          ELSE NaN)

\* a variant that rebuilds the three columns from the mapping, a null where
\* the mapping has no key
SetSlopesByMap(df, keys, outcome) ==
    MkTable(df.ids \cup keys, df.cols \cup {"beach_slope", "cil", "ciu"},
            LAMBDA i, c : IF c \in {"beach_slope", "cil", "ciu"}
                          THEN (IF i \in keys THEN outcome[i].fit[IF c = "beach_slope" THEN "slope" ELSE c]
                                ELSE NaN)
                          ELSE IF i \in df.ids /\ c \in df.cols THEN Cell(df, i, c) ELSE NaN)

\* the loops "for key, value in slope_est.items()" and "in cis.items()"
RECURSIVE SetSlopes(_, _, _)
SetSlopes(df, keys, outcome) ==
    IF keys = {} THEN df
    ELSE LET key == CHOOSE k \in keys : TRUE
             f == outcome[key].fit
         IN  SetSlopes(SetCell(SetCell(SetCell(df, key, "beach_slope", f.slope),
                                       key, "cil", f.cil), key, "ciu", f.ciu),
                       keys \ {key}, outcome)

\* transects[(transects.site_id == site_id) & transects.beach_slope.isna()]
NeedSlope(df, sites) ==
    { i \in df.ids : Cell(df, i, "site_id") \in sites /\ ~ NotNa(Cell(df, i, "beach_slope")) }

\* the keys of slope_est: the processed columns that have data and whose fit returned
Estimated(keys, outcome) == { i \in keys : outcome[i].kind = "ok" }

\* wrapper line 127: only transects that need a slope and have a column
ToProcessSite(df, site, outcome) ==
    { i \in NeedSlope(df, {site}) : outcome[i].kind # "absent" }

\* estimate_slopes_for_site; has_data: the aligned time series is not empty
EstimateSlopesForSite(site, has_data, outcome) ==
    LET all_at_site == AtSite(transects, site)
        slope_est == Estimated(ToProcessSite(transects, site, outcome), outcome)
    IN  /\ agg.pc = "idle"
        /\ IF NeedSlope(transects, {site}) = {}
           THEN /\ site_out' = [site_out EXCEPT ![site] = all_at_site]
                /\ fresh' = [fresh EXCEPT ![site] = TRUE]
                /\ last' = [NoLast EXCEPT !.op = "slope_site", !.site = site]
           ELSE IF ~ has_data
           THEN /\ last' = [NoLast EXCEPT !.op = "slope_site_exit", !.site = site]
                /\ UNCHANGED <<site_out, fresh>>
           ELSE /\ site_out' = [site_out EXCEPT ![site] =
                                  IF slope_est # {} THEN SetSlopes(all_at_site, slope_est, outcome)
                                  ELSE all_at_site]
                /\ fresh' = [fresh EXCEPT ![site] = TRUE]
                /\ last' = [NoLast EXCEPT !.op = "slope_site", !.site = site,
                                          !.before = all_at_site, !.est = slope_est]
        /\ UNCHANGED <<transects, base_gdf, agg, lastval>>
        /\ UNCHANGED <<storeVars, fnVars>>

\* slope_estimation.py, one site of the loop: every column of the CSV is a key
ToProcessMinimal(site, present, outcome) ==
    IF present[site] THEN { i \in IdsAt(site) : outcome[i].kind # "absent" } ELSE {}

\* estimate_slopes(sites): filter names the sites asked for; present: the
\* site's CSV and tide files exist
EstimateSlopes(filter, present, outcome) ==
    LET new_transects == NeedSlope(transects, filter)
        site_ids == { Cell(transects, i, "site_id") : i \in new_transects }
        slope_est == UNION { Estimated(ToProcessMinimal(s, present, outcome), outcome)
                                : s \in site_ids }
    IN  /\ agg.pc = "idle"
        /\ new_transects # {}
        /\ transects' = SetSlopes(transects, slope_est, outcome)
        /\ fresh' = [s \in Sites |-> FALSE]
        /\ last' = [NoLast EXCEPT !.op = "slope_minimal",
                                  !.before = transects, !.est = slope_est]
        /\ UNCHANGED <<base_gdf, agg, lastval, site_out>>
        /\ UNCHANGED <<storeVars, fnVars>>

(***************************************************************************)
(* aggregate_transects as one call over the per-site files of the tools    *)
(***************************************************************************)
RECURSIVE AggregateTransects(_, _, _)
AggregateTransects(base, files, upd) ==
    IF files = <<>> THEN base
    ELSE AggregateTransects(AggregateFile(base, Head(files), upd), Tail(files), upd)

\* sites lists the files of distinct sites handed over, in order
AggregateSites(sites, upd) ==
    /\ agg.pc = "idle"
    /\ \A k \in 1..Len(sites) : site_out[sites[k]] # NoTable
    /\ transects' = AggregateTransects(transects, [k \in 1..Len(sites) |-> site_out[sites[k]]], upd)
    /\ last' = [NoLast EXCEPT !.op = "aggregate_sites", !.before = transects, !.sites = sites,
                              !.est = { sites[k] : k \in { n \in 1..Len(sites) : fresh[sites[n]] } }]
    /\ fresh' = [s \in Sites |-> FALSE]
    /\ UNCHANGED <<base_gdf, agg, lastval, site_out>>
    /\ UNCHANGED <<storeVars, fnVars>>

SiteLists == { q \in UNION { [1..n -> Sites] : n \in 1..MaxFrags } :
                 \A a, b \in 1..Len(q) : a # b => q[a] # q[b] }

\* the shared table before any stage: every transect, solved or not, with or
\* without the interval columns
SolvedRow(has_ci, solved, i, c) ==
    CASE c = "site_id" -> SiteOf[i]
      [] c = "beach_slope" -> IF i \in solved THEN 50 ELSE NaN
      [] c = "cil" -> IF i \in solved THEN 40 ELSE NaN
      [] c = "ciu" -> IF i \in solved THEN 60 ELSE NaN
      [] OTHER -> NaN

SlopeTables ==
    { MkTable(Ids, IF has_ci THEN {"site_id", "beach_slope", "cil", "ciu"}
                   ELSE {"site_id", "beach_slope"},
              LAMBDA i, c : SolvedRow(has_ci, solved, i, c))
        : has_ci \in BOOLEAN, solved \in SUBSET Ids }

InitSite ==
    /\ transects \in SlopeTables
    /\ base_gdf = NoTable
    /\ agg = [pc |-> "idle", k |-> 0, upd |-> NoUpdateColumns]
    /\ last = NoLast
    /\ lastval = NoLastVal
    /\ site_out = NoFiles
    /\ fresh = [s \in Sites |-> FALSE]
    /\ args = NoArgs
    /\ result = NoResult
    /\ store = <<>>
    /\ run = NoRun

\* one site's files as a run finds them: the time series is empty after the
\* date alignment, or every transect has its outcome
SiteInputs(site) ==
    { [has_data |-> FALSE, outcome |-> [i \in IdsAt(site) |-> [kind |-> "absent", fit |-> NoFit]]] }
        \cup { [has_data |-> TRUE, outcome |-> o] : o \in [IdsAt(site) -> Outcomes] }

\* all sites' files: a site's CSV or tide file may be missing
AllSiteInputs ==
    { [present |-> p, outcome |-> o] : p \in [Sites -> BOOLEAN], o \in [Ids -> Outcomes] }

MinimalInputs ==
    { inp \in AllSiteInputs :
        \A i \in Ids : ~ inp.present[SiteOf[i]] => inp.outcome[i].kind = "absent" }

SiteFilters == { Sites } \cup { {s} : s \in Sites }

NextSite ==
    \/ \E site \in Sites : \E inp \in SiteInputs(site) :
          EstimateSlopesForSite(site, inp.has_data, inp.outcome)
    \/ \E filter \in SiteFilters, inp \in MinimalInputs :
          EstimateSlopes(filter, inp.present, inp.outcome)
    \/ \E sites \in SiteLists : AggregateSites(sites, NoUpdateColumns)

SpecSite == InitSite /\ [][NextSite]_vars

\* the trend stage of the CWL workflow on the same tables: the per-site tool,
\* then the aggregation of its files
NextTrends ==
    \/ \E site \in Sites, trends_df \in TrendFrames \cup {NoTrends} :
          LinearModelsSite(site, trends_df)
    \/ \E sites \in SiteLists : AggregateSites(sites, NoUpdateColumns)

SpecTrends == InitSite /\ [][NextTrends]_vars

(***************************************************************************)
(* The observation stage: process_site of batch_process_nz_wrapper.py and  *)
(* of batch_process_NZ.py, on one site's transect_time_series.csv.         *)
(* Dates are day numbers, day 0 being 1984-01-01; a timestamp counts       *)
(* ticks, TicksPerDay to the day. Chainages are in thousandths of a metre  *)
(* in memory and in hundredths in the file.                                *)
(***************************************************************************)
MaxDay == 2          \* the days observations exist on are 0..MaxDay
MaxNew == 2          \* observations one run yields at most
MaxLen == 3          \* rows the file holds at most

TicksPerDay == 2

Days == 0..MaxDay
Stamps == 0..((MaxDay + 1) * TicksPerDay - 1)
Satellites == {"L8", "L9"}
Chainages == {1235}

\* Timestamp.date()
DateOf(ts) == ts \div TicksPerDay

\* float_format='%.2f' of to_csv, and read_csv of what it wrote
Fmt2(v) == IF v = NaN THEN NaN ELSE (v + 5) \div 10
ReadFloat(c) == IF c = NaN THEN NaN ELSE c * 10

ReadCsv(file) == [k \in 1..Len(file) |-> [file[k] EXCEPT !.chainage = ReadFloat(@)]]
ToCsv(df) == [k \in 1..Len(df) |-> [df[k] EXCEPT !.chainage = Fmt2(@)]]

\* df.dates.max()
MaxDates(df) == CHOOSE m \in { df[k].dates : k \in 1..Len(df) } :
                    \A k \in 1..Len(df) : df[k].dates <= m

\* a variant that asks again for the last day held
NextDaySameDay(df) == DateOf(MaxDates(df))

\* str(df.dates.max().date() + timedelta(days=1))
NextDay(df) == DateOf(MaxDates(df)) + 1

\* if min_date < start_date: min_date = start_date
ClampStart(min_date, start_date) == IF min_date < start_date THEN start_date ELSE min_date

NoForce == [given |-> FALSE, date |-> DefaultStartDate]
ForceChoices == { NoForce } \cup { [given |-> TRUE, date |-> d] : d \in Days }

\* a variant that reads the file also under force_start_date
ExistingFrameKept(file, force) == ReadCsv(file)

\* the frame a run starts from: empty under force_start_date or without a file
ExistingFrame(file, force) == IF force.given THEN <<>> ELSE ReadCsv(file)

\* wrapper lines 127-151
MinDateWrapper(file, start_date, force) ==
    LET min_date == IF force.given THEN force.date
                    ELSE IF file # <<>> THEN NextDay(ReadCsv(file))
                    ELSE start_date
    IN  ClampStart(min_date, start_date)

\* script lines 110-132
MinDateMinimal(file, TEST_MODE, TEST_START_DATE, force) ==
    IF force.given THEN force.date
    ELSE IF file # <<>>
         THEN (IF TEST_MODE THEN ClampStart(NextDay(ReadCsv(file)), TEST_START_DATE)
               ELSE NextDay(ReadCsv(file)))
         ELSE (IF TEST_MODE THEN TEST_START_DATE ELSE DefaultStartDate)

\* what retrieve_images, extract_shorelines, remove_duplicates and
\* compute_intersection_QC leave of a request for [min_date, end_date]: rows
\* within the range, one at most per date and satellite
AllRows == [dates : Stamps, satname : Satellites, chainage : Chainages]

\* the sets of at most n rows of a set
RECURSIVE UpTo(_, _)
UpTo(rows, n) ==
    IF n = 0 THEN { {} }
    ELSE LET fewer == UpTo(rows, n - 1)
         IN  fewer \cup { some \cup {r} : some \in fewer, r \in rows }

NewResults(min_date, end_date) ==
    { new \in UpTo({ r \in AllRows : DateOf(r.dates) >= min_date /\ DateOf(r.dates) <= end_date },
                   MaxNew) :
        \A a, b \in new : (a.dates = b.dates /\ a.satname = b.satname) => a = b }

RECURSIVE RowsOf(_)
RowsOf(new) ==
    IF new = {} THEN <<>>
    ELSE LET r == CHOOSE x \in new : TRUE IN <<r>> \o RowsOf(new \ {r})

\* a variant that keeps the new rows only
ConcatNewOnly(df, new_results) == new_results

\* pd.concat([df, new_results], ignore_index=True)
Concat(df, new_results) == df \o new_results

Without(df, k) == [n \in 1..(Len(df) - 1) |-> IF n < k THEN df[n] ELSE df[n + 1]]

\* a variant that leaves the frame as concatenated
SortValuesUnsorted(df) == { df }

\* df.sort_values("dates"): ascending by dates; the default sort is not
\* stable, so rows of equal dates come in any order
RECURSIVE SortValues(_)
SortValues(df) ==
    IF df = <<>> THEN { <<>> }
    ELSE LET first == { k \in 1..Len(df) : \A n \in 1..Len(df) : df[k].dates <= df[n].dates }
         IN  UNION { { <<df[k]>> \o rest : rest \in SortValues(Without(df, k)) } : k \in first }

\* the request for images of [min_date, end_date] is out: retrieve_images
Request(op, force, start, min_date, end_date) ==
    /\ run.pc = "idle"
    /\ run' = [pc |-> "retrieve", op |-> op, forced |-> force.given, force_date |-> force.date,
               start |-> start, min_date |-> min_date, end_date |-> end_date,
               had |-> Len(store), new |-> 0, got |-> "unknown", exit |-> "none"]
    /\ UNCHANGED store

\* batch_process_nz_wrapper.py process_site, up to retrieve_images
ProcessSiteWrapper(start_date, end_date, force_start_date) ==
    /\ Request("wrapper", force_start_date, start_date,
               MinDateWrapper(store, start_date, force_start_date), end_date)
    /\ UNCHANGED <<tableVars, fnVars>>

\* batch_process_NZ.py process_site, up to retrieve_images; the end date is
\* TEST_END_DATE in test mode and 2030-12-30, after every observation,
\* otherwise
ProcessSiteMinimal(TEST_MODE, TEST_START_DATE, TEST_END_DATE, FORCE_START_DATE) ==
    /\ Request("minimal", FORCE_START_DATE,
               IF TEST_MODE THEN TEST_START_DATE ELSE DefaultStartDate,
               MinDateMinimal(store, TEST_MODE, TEST_START_DATE, FORCE_START_DATE),
               IF TEST_MODE THEN TEST_END_DATE ELSE MaxDay)
    /\ UNCHANGED <<tableVars, fnVars>>

\* a process_site that wrote the frame whatever the collaborator returned
SavedAlways(file, df, new_results) ==
    { ToCsv(sorted) : sorted \in SortValues(Concat(df, RowsOf(new_results))) }

\* the files process_site can leave behind: it returns before the write when
\* there are no images, no shorelines or no rows; else the frame is extended,
\* sorted and written
Saved(file, df, new_results) ==
    IF new_results = {} THEN { file }
    ELSE { ToCsv(sorted) : sorted \in SortValues(Concat(df, RowsOf(new_results))) }

\* the rest of process_site, the same in both, when retrieve_images returns;
\* the process then ends with status 0
SaveResults(new_results) ==
    LET df == ExistingFrame(store, [given |-> run.forced, date |-> run.min_date])
    IN  /\ Len(df) + Cardinality(new_results) <= MaxLen
        /\ store' \in Saved(store, df, new_results)
        /\ run' = [NoRun EXCEPT !.op = run.op, !.forced = run.forced, !.had = run.had,
                                !.new = Cardinality(new_results),
                                !.got = IF new_results = {} THEN "nothing" ELSE "rows",
                                !.exit = "success"]
        /\ UNCHANGED <<tableVars, fnVars>>

\* retrieve_images raises: the wrapper exits with status 1, the script's
\* process_site lets the exception through; nothing is written
RetrieveFails ==
    /\ run.pc = "retrieve"
    /\ run' = [NoRun EXCEPT !.op = run.op, !.forced = run.forced, !.had = run.had,
                            !.got = "error", !.exit = "failure"]
    /\ UNCHANGED store
    /\ UNCHANGED <<tableVars, fnVars>>

InitStore ==
    /\ store = <<>>
    /\ run = NoRun
    /\ transects = NoTable
    /\ base_gdf = NoTable
    /\ agg = [pc |-> "idle", k |-> 0, upd |-> NoUpdateColumns]
    /\ last = NoLast
    /\ lastval = NoLastVal
    /\ site_out = NoFiles
    /\ fresh = [s \in Sites |-> FALSE]
    /\ args = NoArgs
    /\ result = NoResult

EndDates == { MaxDay }

\* the settings of a run of the script: the test dates count in test mode only
TestSettings ==
    { [mode |-> FALSE, start |-> DefaultStartDate, end |-> MaxDay] }
        \cup { [mode |-> TRUE, start |-> d, end |-> e] : d \in Days, e \in EndDates }

NextStore ==
    \/ \E start_date \in Days, end_date \in EndDates, force \in ForceChoices :
          ProcessSiteWrapper(start_date, end_date, force)
    \/ \E test \in TestSettings, force \in ForceChoices :
          ProcessSiteMinimal(test.mode, test.start, test.end, force)
    \/ /\ run.pc = "retrieve"
       /\ \E new_results \in NewResults(run.min_date, run.end_date) : SaveResults(new_results)
    \/ RetrieveFails

SpecStore == InitStore /\ [][NextStore]_vars

(***************************************************************************)
(* The merge claims, over the merge that ran last.                         *)
(***************************************************************************)
MergeRan == last.op \in {"aggregate", "linear_models"}

\* the table that merge produced
Merged == IF last.op = "aggregate" THEN base_gdf ELSE transects

\* C1 (merge base-preservation): after merging one fragment into a base table,
\* the result has exactly the row keys of the base, and every base row whose
\* key is not in the fragment has the value it had in every column of the base.
C1_BasePreservation ==
    MergeRan =>
        /\ Merged.ids = last.before.ids
        /\ \A i \in last.before.ids \ last.frag.ids : \A c \in last.before.cols :
              c \in Merged.cols /\ Cell(Merged, i, c) = Cell(last.before, i, c)

\* a base row with a value that the fragment lacks, a fragment row the base
\* lacks, and a common row the merge changed
C1_Witness ==
    /\ MergeRan
    /\ \E i \in last.before.ids \ last.frag.ids, c \in last.before.cols \ {"site_id"} :
          NotNa(Cell(last.before, i, c))
    /\ last.frag.ids \ last.before.ids # {}
    /\ \E i \in last.before.ids \cap last.frag.ids, c \in last.before.cols :
          Cell(Merged, i, c) # Cell(last.before, i, c)

\* C2 (merge null-safety): at every merge of a sequence, a cell that is null in
\* the fragment and non-null in the table keeps the table's value.
C2_NullSafety ==
    MergeRan =>
        \A i \in last.before.ids \cap last.frag.ids :
            \A c \in last.before.cols \cap last.frag.cols :
                (~ NotNa(Cell(last.frag, i, c)) /\ NotNa(Cell(last.before, i, c)))
                    => Cell(Merged, i, c) = Cell(last.before, i, c)

\* the second file of an aggregation, null where the first file had set a value
C2_Witness ==
    /\ last.op = "aggregate"
    /\ agg.k = 2
    /\ \E i \in last.before.ids \cap last.frag.ids :
          \E c \in last.before.cols \cap last.frag.cols :
              /\ ~ NotNa(Cell(last.frag, i, c))
              /\ NotNa(Cell(last.before, i, c))
              /\ Cell(last.before, i, c) # Cell(transects, i, c)

\* C3 (new columns are left-joined, in both uses of the merge): a column of the
\* fragment that the base lacks is a column of the result, with the fragment's
\* value on the rows the fragment covers and null on the others.
C3_NewColumnsJoined ==
    (MergeRan /\ ~ agg.upd.given) =>
        \A c \in last.frag.cols \ last.before.cols :
            /\ c \in Merged.cols
            /\ \A i \in Merged.ids :
                  Cell(Merged, i, c) = IF i \in last.frag.ids THEN Cell(last.frag, i, c) ELSE NaN

\* C4 as stated, for every cell of the base table: while aggregate_transects
\* runs, every cell for which a file read so far carried a non-null value
\* holds the value of the last such file.
C4_LaterWinsEveryCell ==
    agg.pc = "loop" =>
        \A i \in base_gdf.ids : \A c \in base_gdf.cols :
            NotNa(lastval[i][c]) => Cell(base_gdf, i, c) = lastval[i][c]

\* C4 within the update scope (fragments are applied in the supplied order, the
\* later one wins): while aggregate_transects runs, every cell of the base
\* table in the update scope (row key in the base, column among the columns to
\* update) for which a file read so far carried a non-null value holds the
\* value of the last such file.
C4_LaterWins ==
    agg.pc = "loop" =>
        \A i \in base_gdf.ids : \A c \in base_gdf.cols :
            (NotNa(lastval[i][c]) /\ c \in (IF agg.upd.given THEN agg.upd.cols ELSE NumericCols))
                => Cell(base_gdf, i, c) = lastval[i][c]

\* two files gave the same cell two different non-null values
C4_Witness ==
    /\ last.op = "aggregate"
    /\ agg.k = 2
    /\ \E i \in base_gdf.ids \cap last.frag.ids : \E c \in base_gdf.cols \cap last.frag.cols :
          /\ NotNa(Cell(last.frag, i, c))
          /\ NotNa(Cell(last.before, i, c))
          /\ Cell(last.before, i, c) # Cell(transects, i, c)
          /\ Cell(last.frag, i, c) # Cell(last.before, i, c)
          /\ Cell(base_gdf, i, c) = Cell(last.frag, i, c)

(***************************************************************************)
(* The slope claims.                                                       *)
(***************************************************************************)
\* a cell of a table, null when the table has no such row or column
CellOrNaN(df, i, c) == IF i \in df.ids /\ c \in df.cols THEN Cell(df, i, c) ELSE NaN

SlopeCols == {"beach_slope", "cil", "ciu"}

SameRow(a, b, i, cols) == \A c \in cols : CellOrNaN(a, i, c) = CellOrNaN(b, i, c)

\* the slope fragments merged last by the aggregator, all computed from the
\* table they were merged into
FreshFragmentsMerged ==
    /\ last.op = "aggregate_sites"
    /\ last.est = { last.sites[k] : k \in 1..Len(last.sites) }

\* the transects a merged fragment reports a slope for, null in the base
ReportedBy(site) ==
    { i \in site_out[site].ids \cap last.before.ids :
        /\ ~ NotNa(CellOrNaN(last.before, i, "beach_slope"))
        /\ NotNa(CellOrNaN(site_out[site], i, "beach_slope")) }

\* C5: when the base holds a transect with a null slope and the slope stage
\* reports a slope and interval for it, then after the stage and the merge of
\* its fragment the shared table holds that slope, lower and upper bound for
\* the transect, also when the base had no cil/ciu columns, and every other
\* transect is unchanged.
C5_SlopeMergeScenario ==
    /\ FreshFragmentsMerged =>
         /\ \A site \in last.est : \A i \in ReportedBy(site) :
               /\ SlopeCols \subseteq transects.cols
               /\ SameRow(transects, site_out[site], i, SlopeCols)
         /\ \A i \in last.before.ids \ UNION { ReportedBy(site) : site \in last.est } :
               SameRow(transects, last.before, i, Cols)
    /\ last.op = "slope_minimal" =>
         /\ \A i \in last.est : ~ NotNa(CellOrNaN(last.before, i, "beach_slope")) =>
               /\ SlopeCols \subseteq transects.cols
               /\ \E f \in Fits : /\ Cell(transects, i, "beach_slope") = f.slope
                                  /\ Cell(transects, i, "cil") = f.cil
                                  /\ Cell(transects, i, "ciu") = f.ciu
         /\ \A i \in last.before.ids \ last.est : SameRow(transects, last.before, i, Cols)

\* the table a slope run left: the site's file of the tool, the shared table
\* of the script
SlopeRan == last.op \in {"slope_site", "slope_minimal"} /\ last.before # NoTable

SlopeResult == IF last.op = "slope_site" THEN site_out[last.site] ELSE transects

\* C6: after a slope-estimation run only the transects of the result mapping
\* have a changed beach_slope, cil or ciu; a transect that needed a slope and
\* was skipped or failed still has a null beach_slope and is selected again.
C6_SlopeFrame ==
    SlopeRan =>
        /\ \A i \in last.before.ids \ last.est : SameRow(SlopeResult, last.before, i, SlopeCols)
        /\ SlopeResult.ids = last.before.ids
        /\ \A i \in NeedSlope(last.before, Sites) \ last.est : i \in NeedSlope(SlopeResult, Sites)

\* a run that estimated one transect and left another one, which needed a
\* slope too, without one, on a table that had no interval columns
C6_Witness ==
    /\ SlopeRan
    /\ last.est # {}
    /\ "cil" \notin last.before.cols
    /\ "cil" \in SlopeResult.cols
    /\ \E i \in NeedSlope(last.before, Sites) \ last.est :
          \E j \in last.est : Cell(last.before, i, "site_id") = Cell(last.before, j, "site_id")

(***************************************************************************)
(* The observation-store claims.                                           *)
(***************************************************************************)
SameKey(a, b) == a.dates = b.dates /\ a.satname = b.satname

Count(file, row) == Cardinality({ k \in 1..Len(file) : file[k] = row })

\* every row of the file before the step is in the file after it
RowsKept == \A k \in 1..Len(store) : Count(store', store[k]) >= Count(store, store[k])

\* the dates covered after the step reach as far back and as far on as before
RangeKept ==
    store # <<>> =>
        /\ store' # <<>>
        /\ MaxDates(store') >= MaxDates(store)
        /\ \E n \in 1..Len(store') : \A k \in 1..Len(store) : store'[n].dates <= store[k].dates

C9_WatermarkAdvance ==
    (run.pc = "retrieve" /\ ~ run.forced) =>
        run.min_date =
            IF store = <<>> THEN run.start
            ELSE LET day_after == (MaxDates(store) \div TicksPerDay) + 1
                 IN  IF day_after < run.start THEN run.start ELSE day_after

\* a request without override over a series whose latest observation is late
\* in its day: the day after is asked for, later than the global start date
C9_Witness ==
    /\ run.pc = "retrieve" /\ ~ run.forced
    /\ store # <<>>
    /\ MaxDates(store) % TicksPerDay # 0
    /\ run.min_date = (MaxDates(store) \div TicksPerDay) + 1
    /\ run.min_date > run.start

\* C10: in every run, with or without force_start_date, the start date asked
\* of the observation source is not earlier than the configured global start
\* date.
C10_NeverBeforeGlobalStart ==
    run.pc = "retrieve" => run.min_date >= run.start

\* C11: with a force_start_date override the start date asked of the source
\* is the override itself, whatever the history and the configured start
\* date, and the run starts from an empty series: what it writes is its own
\* observations only.
C11_OverrideVerbatim ==
    /\ (run.pc = "retrieve" /\ run.forced) => run.min_date = run.force_date
    /\ (run.pc = "idle" /\ run.forced /\ run.new > 0) => Len(store) = run.new

\* C12: when the extraction collaborator returns zero observations the site's
\* persisted series is left exactly as it was before the run, with or without
\* a force_start_date override, and the run ends with the success status.
C12_NothingNewNothingWritten ==
    [][(run.pc = "retrieve" /\ run'.got = "nothing")
          => (store' = store /\ run'.exit = "success")]_vars

\* a forced run over a non-empty series has ended without observations
C12_Witness ==
    /\ run.pc = "idle"
    /\ run.got = "nothing"
    /\ run.forced
    /\ run.had > 0
    /\ Len(store) = run.had

(***************************************************************************)
(* Single functions of the stages, applied to inputs drawn at the start:   *)
(* args holds the inputs, result what the function returned.               *)
(***************************************************************************)
\* nothing of the pipeline has run
AtRest ==
    /\ store = <<>>
    /\ run = NoRun
    /\ transects = NoTable
    /\ base_gdf = NoTable
    /\ agg = [pc |-> "idle", k |-> 0, upd |-> NoUpdateColumns]
    /\ last = NoLast
    /\ lastval = NoLastVal
    /\ site_out = NoFiles
    /\ fresh = [s \in Sites |-> FALSE]

(***************************************************************************)
(* The append of process_site: pd.concat, then sort_values("dates").       *)
(***************************************************************************)
\* the frames of at most n rows, in every order
RECURSIVE FramesUpTo(_)
FramesUpTo(n) ==
    IF n = 0 THEN { <<>> }
    ELSE LET shorter == FramesUpTo(n - 1)
         IN  shorter \cup { Append(df, r) : df \in shorter, r \in AllRows }

Ascending(df) == \A k \in 1..(Len(df) - 1) : df[k].dates <= df[k + 1].dates

\* the frame read from the file was written sorted; the new rows come in the
\* order of the extraction
AppendInputs ==
    { [fn |-> "append", df |-> df, new_results |-> new_results] :
        df \in { f \in FramesUpTo(MaxNew) : Ascending(f) },
        new_results \in FramesUpTo(MaxNew) }

\* process_site from pd.concat to sort_values
AppendAndSort ==
    /\ args.fn = "append"
    /\ result.fn = "none"
    /\ \E sorted \in SortValues(Concat(args.df, args.new_results)) :
          result' = [fn |-> "append", df |-> sorted]
    /\ UNCHANGED <<args, tableVars, storeVars>>

InitAppend == AtRest /\ args \in AppendInputs /\ result = NoResult
NextAppend == AppendAndSort
SpecAppend == InitAppend /\ [][NextAppend]_vars

\* the concatenated input of the append that ran
AppendInput == args.df \o args.new_results

\* the one stable ordering of a frame by dates
RECURSIVE StableSorted(_)
StableSorted(df) ==
    IF df = <<>> THEN <<>>
    ELSE LET k == CHOOSE k \in 1..Len(df) :
                      /\ \A n \in 1..Len(df) : df[k].dates <= df[n].dates
                      /\ \A n \in 1..(k - 1) : df[n].dates # df[k].dates
         IN  <<df[k]>> \o StableSorted(Without(df, k))

MaxSeries == 4       \* observations of one column

SeriesVals == {NaN, 0, 30, 100}
Thresholds == {40, 80}

Abs(x) == IF x < 0 THEN -x ELSE x

\* the series over the timestamps 1..n
SeriesOver(n) == [1..n -> SeriesVals]
AsSeries(vals) == [k \in 1..Len(vals) |-> [dates |-> k, val |-> vals[k]]]

\* a variant that hands the nulls on
DropNaNothing(chainage) == chainage

\* chainage.dropna()
DropNa(chainage) ==
    LET kept(p) == NotNa(p.val) IN SelectSeq(chainage, kept)

\* np.abs(diff) > cross_change: never true of a null
Far(a, b, cross_change) == NotNa(a) /\ NotNa(b) /\ Abs(a - b) > cross_change

\* SDS_transects.identify_outliers, of the coastsat library: the first point
\* further than cross_change from its neighbours (from its one neighbour at
\* either end) is taken out of both lists and the scan starts again
IsOutlier(chainage, k, cross_change) ==
    IF Len(chainage) < 2 THEN FALSE
    ELSE IF k = 1 THEN Far(chainage[1].val, chainage[2].val, cross_change)
    ELSE IF k = Len(chainage) THEN Far(chainage[k].val, chainage[k - 1].val, cross_change)
    ELSE /\ Far(chainage[k].val, chainage[k - 1].val, cross_change)
         /\ Far(chainage[k].val, chainage[k + 1].val, cross_change)

RECURSIVE IdentifyOutliers(_, _)
IdentifyOutliers(chainage, cross_change) ==
    LET spikes == { k \in 1..Len(chainage) : IsOutlier(chainage, k, cross_change) }
    IN  IF spikes = {} THEN chainage
        ELSE LET k == CHOOSE k \in spikes : \A n \in spikes : k <= n
             IN  IdentifyOutliers(Without(chainage, k), cross_change)

\* despike(chainage, threshold): pd.Series(chainage, index=dates) pairs the
\* two lists again
Despike(chainage, threshold) == IdentifyOutliers(DropNa(chainage), threshold)

DespikeInputs ==
    { [fn |-> "despike", chainage |-> AsSeries(vals), threshold |-> threshold] :
        vals \in UNION { SeriesOver(n) : n \in 0..MaxSeries }, threshold \in Thresholds }

ApplyDespike ==
    /\ args.fn = "despike"
    /\ result.fn = "none"
    /\ result' = [fn |-> "despike", out |-> Despike(args.chainage, args.threshold)]
    /\ UNCHANGED <<args, tableVars, storeVars>>

InitDespike == AtRest /\ args \in DespikeInputs /\ result = NoResult
NextDespike == ApplyDespike
SpecDespike == InitDespike /\ [][NextDespike]_vars

\* the non-null pairs of a series, in order
NonNull(series) ==
    LET present(p) == p.val # NaN IN SelectSeq(series, present)

\* a is b with some entries left out
RECURSIVE IsSubsequence(_, _)
IsSubsequence(a, b) ==
    IF a = <<>> THEN TRUE
    ELSE IF b = <<>> THEN FALSE
    ELSE IF Head(a) = Head(b) THEN IsSubsequence(Tail(a), Tail(b))
    ELSE IsSubsequence(a, Tail(b))

\* C14: for every series and threshold despike returns a subsequence of the
\* non-null (timestamp, value) pairs of its input, in their order and
\* unmodified, so no longer than the series without its nulls.
C14_DespikeSubsequence ==
    result.fn = "despike" =>
        /\ IsSubsequence(result.out, NonNull(args.chainage))
        /\ Len(result.out) <= Len(NonNull(args.chainage))

\* a despike that dropped a null and took out a spike, and kept the rest
C14_Witness ==
    /\ result.fn = "despike"
    /\ Len(NonNull(args.chainage)) < Len(args.chainage)
    /\ Len(result.out) < Len(NonNull(args.chainage))
    /\ Len(result.out) >= 2

(***************************************************************************)
(* The tidal correction of one site: tidal_correction_apply_wrapper.py     *)
(* main and scripts/tidal_correction.py process_site.  Timestamps are in   *)
(* ticks, GridStep ticks to the ten minutes.  A table is a sequence of     *)
(* rows [dates, satname, val] with val[t] the cell of transect t; the tide *)
(* series is a function from timestamps to tide heights.                   *)
(***************************************************************************)
MaxStamp == 4        \* observation timestamps range over 0..MaxStamp

GridStep == 3

TideIds == <<"t1", "t2", "t3">>       \* the transects of the site, in table order
TideCols == { TideIds[n] : n \in 1..Len(TideIds) }
ObsStamps == 0..MaxStamp
RawVals == {NaN, 100}
TideVals == {12}
SlopeVals == {NaN, 2, 4}
DespikeThreshold == 40

\* .dt.round("10min")
Round10(ts) == ((2 * ts + GridStep) \div (2 * GridStep)) * GridStep

\* sat_times
SatTimes(raw_intersects) == { Round10(raw_intersects[k].dates) : k \in 1..Len(raw_intersects) }

\* tides[tides.index.isin(sat_times)]
IsIn(tides, sat_times) == [ts \in (DOMAIN tides) \cap sat_times |-> tides[ts]]

\* Series.interpolate(): a gap between two slopes is filled on the line
\* between them, a gap after the last slope with the last slope, a gap
\* before the first slope is left
Interpolate(beach_slope) ==
    [n \in 1..Len(beach_slope) |->
        IF NotNa(beach_slope[n]) THEN beach_slope[n]
        ELSE LET before == { m \in 1..(n - 1) : NotNa(beach_slope[m]) }
                 after == { m \in (n + 1)..Len(beach_slope) : NotNa(beach_slope[m]) }
             IN  IF before = {} THEN NaN
                 ELSE LET lo == CHOOSE m \in before : \A x \in before : x <= m
                      IN  IF after = {} THEN beach_slope[lo]
                          ELSE LET hi == CHOOSE m \in after : \A x \in after : m <= x
                               IN  beach_slope[lo]
                                     + ((beach_slope[hi] - beach_slope[lo]) * (n - lo)) \div (hi - lo)]

\* .bfill()
Bfill(beach_slope) ==
    [n \in 1..Len(beach_slope) |->
        LET from == { m \in n..Len(beach_slope) : NotNa(beach_slope[m]) }
        IN  IF from = {} THEN NaN ELSE beach_slope[CHOOSE m \in from : \A x \in from : m <= x]]

\* .ffill()
Ffill(beach_slope) ==
    [n \in 1..Len(beach_slope) |->
        LET upto == { m \in 1..n : NotNa(beach_slope[m]) }
        IN  IF upto = {} THEN NaN ELSE beach_slope[CHOOSE m \in upto : \A x \in upto : x <= m]]

\* transects_at_site.beach_slope.interpolate().bfill().ffill(), by transect id
BeachSlopes(beach_slope) ==
    LET filled == Ffill(Bfill(Interpolate(beach_slope)))
    IN  [t \in TideCols |-> filled[CHOOSE n \in 1..Len(TideIds) : TideIds[n] = t]]

\* tide / beach_slope and raw + correction, a null operand giving a null
Divide(tide, slope) == IF slope = NaN THEN NaN ELSE tide \div slope
Plus(a, b) == IF a = NaN \/ b = NaN THEN NaN ELSE a + b

\* tides.tide.apply(lambda tide: tide / beach_slopes): a row per tide sample
Corrections(tides, beach_slopes) ==
    [ts \in DOMAIN tides |-> [t \in TideCols |-> Divide(tides[ts], beach_slopes[t])]]

\* a variant that keeps the rows of the matched timestamps only
ReindexMatched(corrections, index) ==
    LET matched(ts) == ts \in DOMAIN corrections
    IN  [k \in 1..Len(SelectSeq(index, matched)) |-> corrections[SelectSeq(index, matched)[k]]]

\* corrections.reindex(raw_intersects.index, fill_value=0): the row of the
\* sample whose timestamp is the label, a row of zeros for any other label
Reindex(corrections, index) ==
    [k \in 1..Len(index) |->
        IF index[k] \in DOMAIN corrections THEN corrections[index[k]]
        ELSE [t \in TideCols |-> 0]]

Index(raw_intersects) == [k \in 1..Len(raw_intersects) |-> raw_intersects[k].dates]

\* raw_intersects + corrections, both on the index of raw_intersects
TidallyCorrected(raw_intersects, tides, beach_slope) ==
    LET corrections == Reindex(Corrections(tides, BeachSlopes(beach_slope)), Index(raw_intersects))
    IN  [k \in 1..Len(corrections) |->
            [raw_intersects[k] EXCEPT
                !.val = [t \in TideCols |-> Plus(raw_intersects[k].val[t], corrections[k][t])]]]

\* one column of a table as a series
Column(table, t) == [k \in 1..Len(table) |-> [dates |-> table[k].dates, val |-> table[k].val[t]]]

\* tidally_corrected.apply(despike, axis=0), satname put back from the raw
\* table: the rows of the timestamps some column kept
Despiked(table) ==
    LET kept(t) == Despike(Column(table, t), DespikeThreshold)
        has(series, ts) == \E k \in 1..Len(series) : series[k].dates = ts
        at(series, ts) == series[CHOOSE k \in 1..Len(series) : series[k].dates = ts].val
        some(row) == \E t \in TideCols : has(kept(t), row.dates)
        rows == SelectSeq(table, some)
    IN  [k \in 1..Len(rows) |->
            [rows[k] EXCEPT
                !.val = [t \in TideCols |->
                            IF has(kept(t), rows[k].dates) THEN at(kept(t), rows[k].dates) ELSE NaN]]]

NoCorrection == [status |-> "none", tides |-> <<>>, corrected |-> <<>>, out |-> <<>>]

\* from beach_slopes to to_csv, the same in both; nothing is written when
\* despike left no row
Correct(raw_intersects, tides, beach_slope) ==
    LET tidally_corrected == TidallyCorrected(raw_intersects, tides, beach_slope)
        out == Despiked(tidally_corrected)
    IN  [status |-> IF out = <<>> THEN "all_removed" ELSE "written",
         tides |-> tides, corrected |-> tidally_corrected, out |-> out]

\* a wrapper without the test for matching tides
CorrectWrapperUnchecked(raw_intersects, tides, beach_slope) ==
    Correct(raw_intersects, IsIn(tides, SatTimes(raw_intersects)), beach_slope)

\* the wrapper's main: exit 1 when no tide sample is left
CorrectWrapper(raw_intersects, tides, beach_slope) ==
    LET matching == IsIn(tides, SatTimes(raw_intersects))
    IN  IF DOMAIN matching = {}
        THEN [NoCorrection EXCEPT !.status = "no_tides", !.tides = matching]
        ELSE Correct(raw_intersects, matching, beach_slope)

\* the script's process_site: the tides of the timestamps without a sample
\* are asked of the tide service, fetched being those it answered; with no
\* sample at all tides.tide.apply returns a Series, which has no columns,
\* and the exception ends the site
CorrectScript(raw_intersects, tides, beach_slope, fetched) ==
    LET matching == IsIn(tides, SatTimes(raw_intersects))
        all == [ts \in (DOMAIN matching) \cup (DOMAIN fetched) |->
                    IF ts \in DOMAIN matching THEN matching[ts] ELSE fetched[ts]]
    IN  IF DOMAIN all = {}
        THEN [NoCorrection EXCEPT !.status = "error", !.tides = all]
        ELSE Correct(raw_intersects, all, beach_slope)

\* the tide series over a set of timestamps
TidesOver(stamps) == [stamps -> TideVals]

\* the observation tables: sorted by dates, of different ten minutes
RawRows == [dates : ObsStamps, satname : {"L8"}, val : [TideCols -> RawVals]]
RawTables ==
    { <<r>> : r \in RawRows }
        \cup { p \in RawRows \X RawRows : Round10(p[1].dates) < Round10(p[2].dates) }

GridPoints == { Round10(ts) : ts \in ObsStamps }

CorrectInputs ==
    { [fn |-> "correct", op |-> op, raw_intersects |-> raw, tides |-> tides, beach_slope |-> slope] :
        op \in {"wrapper", "script"}, raw \in RawTables,
        tides \in UNION { TidesOver(stamps) : stamps \in SUBSET GridPoints },
        slope \in [1..Len(TideIds) -> SlopeVals] }

\* the site after it: one observation on the grid, its tide and its slopes
SiblingRaw == << [dates |-> 0, satname |-> "L8", val |-> [t \in TideCols |-> 100]] >>
SiblingTides == [ts \in {0} |-> 12]
SiblingSlopes == [n \in 1..Len(TideIds) |-> 2]

\* the wrapper's main for the site
TidalCorrectionWrapper ==
    /\ args.fn = "correct" /\ args.op = "wrapper"
    /\ result.fn = "none"
    /\ result' = [fn |-> "correct", sibling |-> "none",
                  site |-> CorrectWrapper(args.raw_intersects, args.tides, args.beach_slope)]
    /\ UNCHANGED <<args, tableVars, storeVars>>

\* the script's process_site for the site, inside the try of apply_correction
TidalCorrectionScript ==
    /\ args.fn = "correct" /\ args.op = "script"
    /\ result.fn = "none"
    /\ \E stamps \in SUBSET (SatTimes(args.raw_intersects) \ DOMAIN args.tides) :
       \E fetched \in TidesOver(stamps) :
          result' = [fn |-> "correct", sibling |-> "none",
                     site |-> CorrectScript(args.raw_intersects, args.tides, args.beach_slope, fetched)]
    /\ UNCHANGED <<args, tableVars, storeVars>>

\* the next site: another run of the tool, the next turn of the script's loop
\* whatever the first did
TidalCorrectionSibling ==
    /\ result.fn = "correct"
    /\ result.sibling = "none"
    /\ result' = [result EXCEPT !.sibling =
                    IF args.op = "wrapper"
                    THEN CorrectWrapper(SiblingRaw, SiblingTides, SiblingSlopes).status
                    ELSE CorrectScript(SiblingRaw, SiblingTides, SiblingSlopes, <<>>).status]
    /\ UNCHANGED <<args, tableVars, storeVars>>

InitTide == AtRest /\ args \in CorrectInputs /\ result = NoResult
NextTide == TidalCorrectionWrapper \/ TidalCorrectionScript \/ TidalCorrectionSibling
SpecTide == InitTide /\ [][NextTide]_vars

(***************************************************************************)
(* The correction claims, over the correction of the site that ran.        *)
(***************************************************************************)
\* the site was corrected: there is a corrected table
CorrectionRan == result.fn = "correct" /\ result.site.status \in {"written", "all_removed"}

\* the tide sample of the ten minutes of an observation, if there is one
HasTide(row) == Round10(row.dates) \in DOMAIN result.site.tides
TideOf(row) == result.site.tides[Round10(row.dates)]

RawRow(k) == args.raw_intersects[k]
CorrectedRow(k) == result.site.corrected[k]

\* C15: observation and tide timestamps are matched on the ten-minute grid,
\* and every observation whose rounded timestamp has a tide sample is
\* corrected, before despiking, to raw + tide / beach_slope in every transect.
C15_CorrectionFormula ==
    CorrectionRan =>
        \A k \in 1..Len(args.raw_intersects) :
            HasTide(RawRow(k)) =>
                \A t \in TideCols :
                    CorrectedRow(k).val[t]
                        = Plus(RawRow(k).val[t],
                               Divide(TideOf(RawRow(k)), BeachSlopes(args.beach_slope)[t]))

\* C16: no observation row is dropped for lack of a tide sample: the corrected
\* table, before despiking, has exactly the rows of the raw table, and a row
\* without a matching tide sample is corrected by zero in every transect.
C16_UnmatchedRowsKept ==
    CorrectionRan =>
        /\ Len(result.site.corrected) = Len(args.raw_intersects)
        /\ \A k \in 1..Len(args.raw_intersects) :
              /\ CorrectedRow(k).dates = RawRow(k).dates
              /\ CorrectedRow(k).satname = RawRow(k).satname
              /\ ~HasTide(RawRow(k)) => CorrectedRow(k).val = RawRow(k).val

\* a corrected table with a non-null row that had a tide sample and one that
\* had none
C16_Witness ==
    /\ result.fn = "correct" /\ result.site.status = "written"
    /\ \E k, n \in 1..Len(args.raw_intersects) :
          /\ HasTide(RawRow(k))
          /\ \E t \in TideCols : NotNa(CorrectedRow(k).val[t])
                                  /\ CorrectedRow(k).val[t] # RawRow(k).val[t]
          /\ ~HasTide(RawRow(n))
          /\ \E t \in TideCols : NotNa(RawRow(n).val[t]) /\ CorrectedRow(n).val[t] = RawRow(n).val[t]

C18_NoSlopeUncorrected ==
    (CorrectionRan /\ \A n \in 1..Len(TideIds) : args.beach_slope[n] = NaN) =>
        \A k \in 1..Len(args.raw_intersects) : CorrectedRow(k).val = RawRow(k).val

\* C19: slope estimation is idempotent on solved transects: a run processes
\* only the transects whose beach_slope is null, so a transect with a
\* beach_slope keeps its beach_slope, cil and ciu over every run.
C19_SolvedTransectsKept ==
    SlopeRan =>
        \A i \in last.before.ids :
            NotNa(CellOrNaN(last.before, i, "beach_slope"))
                => SameRow(SlopeResult, last.before, i, SlopeCols)

(***************************************************************************)
(* The trend fit of one site's corrected table: get_trends of              *)
(* linear_models.py and the loop of calculate_trends_for_site of the       *)
(* wrapper.  df[t] is the column of transect t as a series; the statistics *)
(* of the regression itself are the library's and are left out of a row.   *)
(***************************************************************************)
MaxRows == 4         \* rows of the corrected table

FitCols == {"t1", "t2"}
FitVals == {NaN, 100}

\* the tables of n rows over the columns
FitTables(n) == [FitCols -> { AsSeries(vals) : vals \in [1..n -> FitVals] }]

\* a row that counts the fitted points twice
TrendRowFitted(column) ==
    [n_points |-> Len(DropNa(column)), n_points_nonan |-> Len(DropNa(column))]

\* the entry appended to trends for one column: len(df[transect_id]) and
\* len(sub_df)
TrendRow(column) ==
    [n_points |-> Len(column), n_points_nonan |-> Len(DropNa(column))]

\* the columns a loop reports: those with a value left by dropna, less, in the
\* wrapper, those whose fit raised
Reported(df, keys, failed) == { t \in keys : Len(DropNa(df[t])) # 0 /\ t \notin failed }

\* get_trends(filepath): every column of the file; an exception of the fit
\* ends the call
GetTrends(df, failed) ==
    IF \E t \in FitCols : Len(DropNa(df[t])) # 0 /\ t \in failed
    THEN [status |-> "error", trends |-> <<>>]
    ELSE [status |-> "ok", trends |-> [t \in Reported(df, FitCols, {}) |-> TrendRow(df[t])]]

\* the loop of calculate_trends_for_site: the site's transects that are
\* columns of the file; a fit that raises is skipped
TrendsForSite(df, at_site, failed) ==
    [status |-> "ok",
     trends |-> [t \in Reported(df, at_site \cap FitCols, failed) |-> TrendRow(df[t])]]

FitInputs ==
    { [fn |-> "fit", op |-> op, df |-> df, at_site |-> at_site] :
        op \in {"wrapper", "minimal"},
        df \in UNION { FitTables(n) : n \in 1..MaxRows },
        at_site \in {FitCols, {"t1"}} }

\* failed: the columns on which LinearRegression or a metric raises
FitTrends(failed) ==
    /\ args.fn = "fit"
    /\ result.fn = "none"
    /\ result' = [fn |-> "fit", failed |-> failed,
                  fit |-> IF args.op = "wrapper" THEN TrendsForSite(args.df, args.at_site, failed)
                          ELSE GetTrends(args.df, failed)]
    /\ UNCHANGED <<args, tableVars, storeVars>>

InitFit == AtRest /\ args \in FitInputs /\ result = NoResult
NextFit == \E failed \in SUBSET FitCols : FitTrends(failed)
SpecFit == InitFit /\ [][NextFit]_vars

\* the columns the loop of the run went over
FitKeys == IF args.op = "wrapper" THEN args.at_site \cap FitCols ELSE FitCols

\* C20: for every column with a non-null value the fit reports n_points, the
\* rows of the column nulls included, and n_points_nonan, the non-null values
\* fitted, so n_points_nonan <= n_points; a column without a non-null value
\* gets no row.
C20_PointCounts ==
    (result.fn = "fit" /\ result.fit.status = "ok") =>
        \A t \in FitKeys :
            /\ t \in DOMAIN result.fit.trends =>
                  /\ result.fit.trends[t].n_points = Len(args.df[t])
                  /\ result.fit.trends[t].n_points_nonan = Len(NonNull(args.df[t]))
                  /\ result.fit.trends[t].n_points_nonan <= result.fit.trends[t].n_points
            /\ Len(NonNull(args.df[t])) = 0 => t \notin DOMAIN result.fit.trends
            /\ (Len(NonNull(args.df[t])) > 0 /\ t \notin result.failed)
                  => t \in DOMAIN result.fit.trends

\* a fit of a column of three values and a null, next to a column of nulls
C20_Witness ==
    /\ result.fn = "fit" /\ result.fit.status = "ok"
    /\ \E t, u \in FitKeys :
          /\ t \in DOMAIN result.fit.trends
          /\ result.fit.trends[t].n_points = 4
          /\ result.fit.trends[t].n_points_nonan = 3
          /\ Len(args.df[u]) = 4 /\ Len(NonNull(args.df[u])) = 0
          /\ u \notin DOMAIN result.fit.trends

(***************************************************************************)
(* The drivers of the whole pipeline: tests/run_full_workflow.py main and  *)
(* CoastSat-minimal/tests/validate_downstream.py validate_downstream.      *)
(* Each step is one script run as a subprocess over the sites asked for.   *)
(***************************************************************************)
FullWorkflow ==
    <<"download", "download_sar", "tide_fetch", "slope", "correct", "trend", "xlsx">>
DownstreamWorkflow == <<"tide_fetch", "slope", "correct", "trend", "xlsx">>

Steps(driver) == IF driver = "full" THEN FullWorkflow ELSE DownstreamWorkflow

\* the sites of a run: those of TEST_SITES in order, the one site of --sites
WorkflowInputs ==
    { [fn |-> "workflow", driver |-> "full", sites |-> sites] :
        sites \in { <<1>>, <<2>>, <<1, 2>>, <<2, 1>> } }
      \cup { [fn |-> "workflow", driver |-> "downstream", sites |-> <<site>>] : site \in Sites }

\* a driver that goes on after a failed step
AfterReturnIgnored(returncode, step, steps) ==
    IF step = Len(steps) THEN "finished" ELSE "between"

\* run_command after subprocess.run: sys.exit(1), or the CalledProcessError
\* of check=True, on a status other than 0
AfterReturn(returncode, step, steps) ==
    IF returncode # 0 THEN "failed"
    ELSE IF step = Len(steps) THEN "finished" ELSE "between"

\* the driver is about to run its first command
StartWorkflow ==
    /\ args.fn = "workflow"
    /\ result.fn = "none"
    /\ result' = [fn |-> "workflow", step |-> 1, phase |-> "between", site |-> 0,
                  completed |-> {}]
    /\ UNCHANGED <<args, tableVars, storeVars>>

\* run_command: subprocess.run starts the script of the step, which takes
\* the first site
RunCommand ==
    /\ result.fn = "workflow"
    /\ result.phase = "between"
    /\ result' = [result EXCEPT !.phase = "running", !.site = 1]
    /\ UNCHANGED <<args, tableVars, storeVars>>

\* the script goes on to its next site
StageNextSite ==
    /\ result.fn = "workflow"
    /\ result.phase = "running"
    /\ result.site < Len(args.sites)
    /\ result' = [result EXCEPT !.site = @ + 1]
    /\ UNCHANGED <<args, tableVars, storeVars>>

\* the script is through its sites and the subprocess returns
CommandReturns(returncode) ==
    /\ result.fn = "workflow"
    /\ result.phase = "running"
    /\ result.site = Len(args.sites)
    /\ result' = [result EXCEPT
                    !.phase = AfterReturn(returncode, result.step, Steps(args.driver)),
                    !.step = IF AfterReturn(returncode, result.step, Steps(args.driver)) = "failed"
                             THEN @ ELSE @ + 1,
                    !.site = 0,
                    !.completed = IF returncode = 0
                                  THEN @ \cup { Steps(args.driver)[result.step] } ELSE @]
    /\ UNCHANGED <<args, tableVars, storeVars>>

InitWorkflow == AtRest /\ args \in WorkflowInputs /\ result = NoResult
NextWorkflow ==
    \/ StartWorkflow
    \/ RunCommand
    \/ StageNextSite
    \/ \E returncode \in {0, 1} : CommandReturns(returncode)
SpecWorkflow == InitWorkflow /\ [][NextWorkflow]_vars

\* the stage running now, and the stage a given order puts before it among
\* the steps of the driver
Running == Steps(args.driver)[result.step]
IndexIn(order, stage) == CHOOSE n \in 1..Len(order) : order[n] = stage
InOrder(order, stage) == \E n \in 1..Len(order) : order[n] = stage
PredecessorDone(order) ==
    (result.fn = "workflow" /\ result.phase = "running" /\ InOrder(order, Running)) =>
        \A n \in 1..(IndexIn(order, Running) - 1) :
            InOrder(Steps(args.driver), order[n]) => order[n] \in result.completed

SpecOrder == <<"download", "tide_fetch", "correct", "slope", "trend">>
CodeOrder == <<"download", "tide_fetch", "slope", "correct", "trend">>

\* C21 as stated: within a site the stages run in the order download, tide
\* fetch, despike/correct, slope, trend, none starting before the one before
\* it has completed.
C21_StagesInSpecOrder == PredecessorDone(SpecOrder)

\* C21 as the drivers have it: the stages run in the order download, tide
\* fetch, slope, correct, trend, none starting before every earlier stage of
\* the run has completed for every site.
C21_StagesInCodeOrder ==
    /\ PredecessorDone(CodeOrder)
    /\ (result.fn = "workflow" /\ result.phase = "running") =>
          \A n \in 1..(result.step - 1) : Steps(args.driver)[n] \in result.completed

\* the trend stage at work on the second site of a full run, the four stages
\* before it completed
C21_Witness ==
    /\ result.fn = "workflow" /\ args.driver = "full"
    /\ result.phase = "running" /\ Running = "trend" /\ result.site = 2
    /\ {"download", "tide_fetch", "slope", "correct"} \subseteq result.completed

(***************************************************************************)
(* One tide query: get_tide_for_dt of the fetch wrapper and of             *)
(* scripts/tidal_correction.py.  responses is the list of what the         *)
(* attempts met, waited the seconds slept.                                 *)
(***************************************************************************)
DefaultMaxRetries == 5
RateLimitSleep == 30
ErrorSleep == 5

\* what one requests.get can meet: status 200 with the value, status 429,
\* another status, an exception (a timeout of the (30, 30) pair, a body
\* without the timestamp)
Responses == {"ok", "rate_limit", "status", "exception"}

QueryInputs == { [fn |-> "tide_query", max_retries |-> n] : n \in {0, 1, 2, DefaultMaxRetries} }

\* a loop that does not count a rate-limit answer
RetriesAfterFreeRateLimit(retries, response) ==
    IF response = "rate_limit" THEN retries ELSE retries + 1

\* retries += 1 in each of the three failure branches
RetriesAfter(retries, response) == retries + 1

\* time.sleep(30) after 429, time.sleep(5) after another status or an exception
SleepAfter(response) == IF response = "rate_limit" THEN RateLimitSleep ELSE ErrorSleep

\* retries = 0
StartQuery ==
    /\ args.fn = "tide_query"
    /\ result.fn = "none"
    /\ result' = [fn |-> "tide_query", phase |-> "trying", retries |-> 0, waited |-> 0,
                  responses |-> <<>>]
    /\ UNCHANGED <<args, tableVars, storeVars>>

\* one turn of the while loop
Attempt(response) ==
    /\ result.fn = "tide_query"
    /\ result.phase = "trying"
    /\ result.retries < args.max_retries
    /\ Len(result.responses) <= DefaultMaxRetries + 1
    /\ result' = IF response = "ok"
                 THEN [result EXCEPT !.phase = "returned",
                                     !.responses = Append(@, response)]
                 ELSE [result EXCEPT !.retries = RetriesAfter(@, response),
                                     !.waited = @ + SleepAfter(response),
                                     !.responses = Append(@, response)]
    /\ UNCHANGED <<args, tableVars, storeVars>>

\* the loop is left: raise RuntimeError
QueryRaises ==
    /\ result.fn = "tide_query"
    /\ result.phase = "trying"
    /\ ~(result.retries < args.max_retries)
    /\ result' = [result EXCEPT !.phase = "raised"]
    /\ UNCHANGED <<args, tableVars, storeVars>>

InitQuery == AtRest /\ args \in QueryInputs /\ result = NoResult
NextQuery == StartQuery \/ (\E response \in Responses : Attempt(response)) \/ QueryRaises
SpecQuery == InitQuery /\ [][NextQuery]_vars

\* the failed attempts of a query and those of them that met a rate limit
Failures(responses) ==
    LET failed(r) == r # "ok" IN Len(SelectSeq(responses, failed))
RateLimits(responses) ==
    LET limited(r) == r = "rate_limit" IN Len(SelectSeq(responses, limited))

\* C22: a tide query makes at most max_retries attempts and then is over: it
\* returns on the first successful response and raises once the budget is
\* used up; every failed attempt, of whatever kind, takes one unit of the
\* one budget and is followed by 30 s of wait after a rate limit, 5 s after
\* any other failure.
C22_BoundedRetries ==
    result.fn = "tide_query" =>
        /\ Len(result.responses) <= args.max_retries
        /\ result.retries = Failures(result.responses)
        /\ result.waited = RateLimitSleep * RateLimits(result.responses)
                             + ErrorSleep * (Failures(result.responses)
                                               - RateLimits(result.responses))
        /\ result.phase = "returned" <=>
              (result.responses # <<>> /\ result.responses[Len(result.responses)] = "ok")
        /\ result.phase = "raised" =>
              (result.retries = args.max_retries /\ Failures(result.responses) = Len(result.responses))
        /\ result.phase = "trying" =>
              (result.retries < args.max_retries \/ ENABLED QueryRaises)

\* a query of the default budget that raised after a rate limit, another
\* status and an exception among its five failures
C22_Witness ==
    /\ result.fn = "tide_query" /\ args.max_retries = DefaultMaxRetries
    /\ result.phase = "raised"
    /\ Len(result.responses) = DefaultMaxRetries
    /\ \A r \in Responses \ {"ok"} : \E n \in 1..Len(result.responses) : result.responses[n] = r

(***************************************************************************)
(* The tide fetch of one site: main of the fetch wrapper and one turn of   *)
(* the site loop of fetch_tides.  dates are the rounded observation        *)
(* timestamps; outcomes lists how the query of each went.                  *)
(***************************************************************************)
MaxFetch == 3        \* observation timestamps of the site

FetchInputs ==
    { [fn |-> "fetch", op |-> op, dates |-> dates] :
        op \in {"wrapper", "script"},
        dates \in UNION { [1..n -> GridPoints] : n \in 0..MaxFetch } }

\* a loop that gives up at the first failed query
OnQueryErrorStops(k, dates) == Len(dates)

\* except Exception: continue
OnQueryError(k, dates) == k + 1

\* the wrapper has read the dates: exit 1 when there are none
StartFetch ==
    /\ args.fn = "fetch"
    /\ result.fn = "none"
    /\ result' = [fn |-> "fetch", k |-> 0, results |-> <<>>, outcomes |-> <<>>, file |-> <<>>,
                  status |-> IF args.op = "wrapper" /\ Len(args.dates) = 0
                             THEN "failed" ELSE "fetching"]
    /\ UNCHANGED <<args, tableVars, storeVars>>

\* one turn of the loop over dates: get_tide_for_dt returns a value or raises
FetchDate(outcome) ==
    /\ result.fn = "fetch"
    /\ result.status = "fetching"
    /\ result.k < Len(args.dates)
    /\ \E tide \in TideVals :
          result' = IF outcome = "value"
                    THEN [result EXCEPT !.k = @ + 1,
                                        !.outcomes = Append(@, outcome),
                                        !.results = Append(@, [dates |-> args.dates[result.k + 1],
                                                                tide |-> tide])]
                    ELSE [result EXCEPT !.k = OnQueryError(@, args.dates),
                                        !.outcomes = Append(@, outcome)]
    /\ UNCHANGED <<args, tableVars, storeVars>>

\* after the loop: without results the wrapper exits 1 and the script goes on
\* to the next site; else tides.csv is written
SaveTides ==
    /\ result.fn = "fetch"
    /\ result.status = "fetching"
    /\ ~(result.k < Len(args.dates))
    /\ result' = IF Len(result.results) = 0
                 THEN [result EXCEPT !.status = IF args.op = "wrapper" THEN "failed" ELSE "skipped"]
                 ELSE [result EXCEPT !.status = "written", !.file = result.results]
    /\ UNCHANGED <<args, tableVars, storeVars>>

InitFetch == AtRest /\ args \in FetchInputs /\ result = NoResult
NextFetch == StartFetch \/ (\E outcome \in {"value", "raised"} : FetchDate(outcome)) \/ SaveTides
SpecFetch == InitFetch /\ [][NextFetch]_vars

\* the timestamps whose query succeeded, in order
RECURSIVE Succeeded(_, _)
Succeeded(dates, outcomes) ==
    IF dates = <<>> \/ outcomes = <<>> THEN <<>>
    ELSE (IF Head(outcomes) = "value" THEN <<Head(dates)>> ELSE <<>>)
            \o Succeeded(Tail(dates), Tail(outcomes))

FetchOver == result.fn = "fetch" /\ result.status \in {"written", "failed", "skipped"}

\* C23: a tide query that used up its retries costs its own timestamp only:
\* the loop goes on with the remaining timestamps, the tide series written
\* holds exactly the timestamps whose query succeeded, and the stage fails
\* for the site only when no tide sample at all was fetched.
C23_PartialTides ==
    FetchOver =>
        /\ Len(args.dates) > 0 => Len(result.outcomes) = Len(args.dates)
        /\ result.status = "written" =>
              [n \in 1..Len(result.file) |-> result.file[n].dates]
                  = Succeeded(args.dates, result.outcomes)
        /\ result.status = "written" <=> Succeeded(args.dates, result.outcomes) # <<>>
        /\ result.status # "written" => result.file = <<>>

\* a fetch whose first query failed and whose later queries were written
C23_Witness ==
    /\ FetchOver /\ result.status = "written"
    /\ Len(args.dates) = 3
    /\ result.outcomes[1] = "raised"
    /\ Len(result.file) = 2

(***************************************************************************)
(* The site loops of the multi-site scripts: batch_process_NZ.py (the      *)
(* plain loop of test mode and the pool of process_map), apply_correction  *)
(* of tidal_correction.py and main of make_xlsx.py.  The sites are 1..n in *)
(* loop order; fails are those whose process_site raises.                  *)
(***************************************************************************)
MaxSites == 3        \* sites of one run

SiteLoops == {"batch_test", "batch_pool", "correct", "xlsx"}

LoopInputs ==
    { [fn |-> "sites", stage |-> stage, n |-> n, fails |-> fails] :
        stage \in SiteLoops, n \in 1..MaxSites, fails \in SUBSET (1..MaxSites) }

NoReport == [given |-> FALSE, success |-> 0, total |-> 0]

StartLoop ==
    /\ args.fn = "sites"
    /\ result.fn = "none"
    /\ result' = [fn |-> "sites", status |-> "running", k |-> 0, processed |-> {},
                  success |-> 0, report |-> NoReport]
    /\ UNCHANGED <<args, tableVars, storeVars>>

\* the next site of the loop.  An exception of process_site is caught by the
\* try of apply_correction and of make_xlsx; the loop of test mode has no
\* try and the script ends there; under process_map the exception ends the
\* script when the results are collected, and of the sites after it those
\* already handed to a worker (later) are still processed
LoopSite(later) ==
    LET site == result.k + 1
    IN  /\ result.fn = "sites"
        /\ result.status = "running"
        /\ result.k < args.n
        /\ later \subseteq (site + 1)..args.n
        /\ (later # {}) => (args.stage = "batch_pool" /\ site \in args.fails)
        /\ result' =
              IF site \notin args.fails
              THEN [result EXCEPT !.k = site, !.processed = @ \cup {site}, !.success = @ + 1]
              ELSE IF args.stage \in {"correct", "xlsx"}
              THEN [result EXCEPT !.k = site, !.processed = @ \cup {site}]
              ELSE [result EXCEPT !.k = site, !.processed = @ \cup {site} \cup later,
                                  !.status = "aborted"]
        /\ UNCHANGED <<args, tableVars, storeVars>>

\* after the loop: make_xlsx prints success/len(site_ids); the other scripts
\* print that they are done
LoopEnds ==
    /\ result.fn = "sites"
    /\ result.status = "running"
    /\ result.k = args.n
    /\ result' = [result EXCEPT
                    !.status = "completed",
                    !.report = IF args.stage = "xlsx"
                               THEN [given |-> TRUE, success |-> result.success, total |-> args.n]
                               ELSE NoReport]
    /\ UNCHANGED <<args, tableVars, storeVars>>

InitLoop == AtRest /\ args \in LoopInputs /\ result = NoResult
NextLoop ==
    \/ StartLoop
    \/ \E later \in SUBSET (1..MaxSites) : LoopSite(later)
    \/ LoopEnds
SpecLoop == InitLoop /\ [][NextLoop]_vars

\* C24: in every multi-site stage a failure on one site does not end the
\* run: every remaining site is still processed, and the run reports how
\* many sites succeeded and failed.
C24_SiteFailureContained ==
    (result.fn = "sites" /\ result.status # "running") =>
        /\ result.status = "completed"
        /\ result.processed = 1..args.n
        /\ result.report.given
        /\ result.report.success = Cardinality((1..args.n) \ args.fails)
        /\ result.report.total = args.n

(***************************************************************************)
(* The site workers of batch_process_NZ.py and the single process of       *)
(* aggregate_transects.  A worker reads the rows of its site from the      *)
(* transect table and writes the file of its own site; the aggregator      *)
(* loads the table once, applies the per-site files in the order given and *)
(* saves once.  table maps a site to the value its rows hold, files maps a *)
(* site to the value and the writers of its file.                          *)
(***************************************************************************)
MaxPoolSites == 5    \* sites of one run, one more than the pool holds
PoolLimit == 4

PoolInputs ==
    { [fn |-> "pool", test_mode |-> t, n |-> n] : t \in BOOLEAN, n \in 1..MaxPoolSites }

MaxWorkersAll(n) == n

\* max_workers = min(4, len(poly.index))
MaxWorkers(n) == IF n < PoolLimit THEN n ELSE PoolLimit

FragmentOf(site) == 10 + site

NoFile == [value |-> 0, writers |-> {}]

StartPool ==
    /\ args.fn = "pool"
    /\ result.fn = "none"
    /\ result' = [fn |-> "pool", phase |-> "sites", started |-> 0, running |-> {},
                  done |-> {}, table |-> [s \in 1..args.n |-> 0],
                  files |-> [s \in 1..args.n |-> NoFile], applied |-> 0]
    /\ UNCHANGED <<args, tableVars, storeVars>>

\* process_site is entered for the next site of poly.index: by the loop of
\* test mode when the previous call has returned, by a free worker of the
\* pool otherwise; it selects the rows of its site from the table
WorkerStarts ==
    LET site == result.started + 1
    IN  /\ result.fn = "pool"
        /\ result.phase = "sites"
        /\ site <= args.n
        /\ IF args.test_mode
           THEN result.running = {}
           ELSE Cardinality(result.running) < MaxWorkers(args.n)
        /\ result' = [result EXCEPT !.started = site, !.running = @ \cup {site}]
        /\ UNCHANGED <<args, tableVars, storeVars>>

\* process_site writes data/<sitename>/transect_time_series.csv and returns
WorkerWrites(site) ==
    /\ result.fn = "pool"
    /\ result.phase = "sites"
    /\ site \in result.running
    /\ result' = [result EXCEPT
                    !.running = @ \ {site},
                    !.done = @ \cup {site},
                    !.files[site] = [value |-> FragmentOf(site),
                                     writers |-> result.files[site].writers \cup {site}]]
    /\ UNCHANGED <<args, tableVars, storeVars>>

\* aggregate_transects reads the base table
AggregatorLoads ==
    /\ result.fn = "pool"
    /\ result.phase = "sites"
    /\ result.done = 1..args.n
    /\ result' = [result EXCEPT !.phase = "merge"]
    /\ UNCHANGED <<args, tableVars, storeVars>>

\* one turn of 'for site_file in per_site_transects'
AggregatorApplies ==
    LET site == result.applied + 1
    IN  /\ result.fn = "pool"
        /\ result.phase = "merge"
        /\ site <= args.n
        /\ result' = [result EXCEPT !.applied = site,
                                    !.table[site] = result.files[site].value]
        /\ UNCHANGED <<args, tableVars, storeVars>>

AggregatorSaves ==
    /\ result.fn = "pool"
    /\ result.phase = "merge"
    /\ result.applied = args.n
    /\ result' = [result EXCEPT !.phase = "saved"]
    /\ UNCHANGED <<args, tableVars, storeVars>>

InitPool == AtRest /\ args \in PoolInputs /\ result = NoResult
NextPool ==
    \/ StartPool
    \/ WorkerStarts
    \/ \E site \in 1..MaxPoolSites : WorkerWrites(site)
    \/ AggregatorLoads
    \/ AggregatorApplies
    \/ AggregatorSaves
SpecPool == InitPool /\ [][NextPool]_vars

\* C25: at most four site workers run at once, one in test mode; while they
\* run the transect table is not changed and each file is written by the
\* worker of its own site only; the fragments are then applied one after
\* the other by the one aggregator, and the saved table holds the update of
\* every site.
C25_SingleWriter ==
    result.fn = "pool" =>
        /\ Cardinality(result.running) <= PoolLimit
        /\ args.test_mode => Cardinality(result.running) <= 1
        /\ result.phase = "sites" => \A s \in 1..args.n : result.table[s] = 0
        /\ \A s \in 1..args.n : result.files[s].writers \subseteq {s}
        /\ result.phase # "sites" => result.running = {}
        /\ \A s \in 1..args.n :
              result.table[s] = IF result.phase # "sites" /\ s <= result.applied
                                THEN 10 + s ELSE 0

\* five sites outside test mode: four workers run at once, the fifth site
\* having waited for a worker, and one file is written
C25_Witness ==
    /\ result.fn = "pool"
    /\ ~args.test_mode
    /\ args.n > PoolLimit
    /\ Cardinality(result.running) = PoolLimit
    /\ result.done # {}
    /\ \A s \in result.done : result.files[s].writers = {s}

(***************************************************************************)
(* The per-site files of the slope and trend tools                         *)
(***************************************************************************)
\* the columns the slope stage computes
SlopeStageCols == {"beach_slope", "cil", "ciu"}

\* C26: the file the slope stage writes for a site holds only the columns
\* the stage computes (beach_slope, cil, ciu) and no other attribute column
\* of the transect table.
C26_FragmentColumns ==
    \A s \in Sites :
        (last.op = "slope_site" /\ last.site = s /\ fresh[s]) =>
            site_out[s].cols \subseteq SlopeStageCols

\* the two per-site tools on the shared table, each writing the file of its
\* site
NextFragments ==
    \/ \E site \in Sites : \E inp \in SiteInputs(site) :
          EstimateSlopesForSite(site, inp.has_data, inp.outcome)
    \/ \E site \in Sites, trends_df \in TrendFrames \cup {NoTrends} :
          LinearModelsSite(site, trends_df)

SpecFragments == InitSite /\ [][NextFragments]_vars

\* C27: every file the slope or the trend tool writes for a site holds rows
\* of transects of that site only, whichever way the tool ends.
C27_FragmentRows ==
    \A s \in Sites :
        \A i \in site_out[s].ids : SiteOf[i] = s /\ Cell(site_out[s], i, "site_id") = s

\* the slope tool has written the file of one site with estimated slopes,
\* the table holding transects of the other site too
C27_Witness ==
    \E s \in Sites :
        /\ last.op = "slope_site" /\ last.site = s /\ last.est # {}
        /\ site_out[s].ids = IdsAt(s)
        /\ transects.ids \ IdsAt(s) # {}

\* C28: a column without a value, or a column whose fit raises, is skipped
\* and never ends the stage: the run completes and every other column with
\* a value still gets its trend row.
C28_FitFailureSkipped ==
    result.fn = "fit" =>
        /\ result.fit.status = "ok"
        /\ \A t \in FitKeys :
              (Len(NonNull(args.df[t])) > 0 /\ t \notin result.failed)
                  => t \in DOMAIN result.fit.trends

(***************************************************************************)
(* aggregate_transects run again on its own output with the same files     *)
(***************************************************************************)
FileLists == UNION { [1..n -> SiteFrames] : n \in 0..MaxFrags }

AggregateInputs ==
    { [fn |-> "aggregate", base |-> base, files |-> files, upd |-> upd] :
        base \in BaseTables, files \in FileLists, upd \in UpdateColumnsChoices }

\* two calls of aggregate_transects, the second on the output of the first
AggregateTwice ==
    /\ args.fn = "aggregate"
    /\ result.fn = "none"
    /\ LET once == AggregateTransects(args.base, args.files, args.upd)
       IN  result' = [fn |-> "aggregate", once |-> once,
                      twice |-> AggregateTransects(once, args.files, args.upd)]
    /\ UNCHANGED <<args, tableVars, storeVars>>

InitAggregate == AtRest /\ args \in AggregateInputs /\ result = NoResult
NextAggregate == AggregateTwice
SpecAggregate == InitAggregate /\ [][NextAggregate]_vars

\* C29: aggregating the files into the table already aggregated from the
\* same files gives that table again.
C29_AggregationIdempotent ==
    result.fn = "aggregate" => result.twice = result.once

\* two files that give different values for the same cell of the base, the
\* base holding a third
C29_Witness ==
    /\ result.fn = "aggregate"
    /\ Len(args.files) = 2
    /\ \E i \in args.base.ids \cap args.files[1].ids \cap args.files[2].ids :
          /\ "trend" \in args.base.cols \cap args.files[1].cols \cap args.files[2].cols
          /\ NotNa(Cell(args.files[1], i, "trend"))
          /\ NotNa(Cell(args.files[2], i, "trend"))
          /\ Cell(args.files[1], i, "trend") # Cell(args.files[2], i, "trend")
          /\ Cell(args.base, i, "trend") # Cell(args.files[2], i, "trend")
          /\ Cell(result.once, i, "trend") = Cell(args.files[2], i, "trend")

(***************************************************************************)
(* Slope estimation: the date alignment of the time series and the tide    *)
(* file, and the pairing of the tides with the values of one transect.     *)
(* Both files are in date order; a row of df is [dates, val], a row of     *)
(* tides is [dates, tide].                                                 *)
(***************************************************************************)
MaxAlign == 3        \* rows of each of the two files

AlignVals == {NaN, 100}

\* the sequences of at most n rows in date order
SortedRows(rows, n) ==
    { q \in UNION { [1..m -> rows] : m \in 0..n } :
        \A k \in 1..(Len(q) - 1) : q[k].dates <= q[k + 1].dates }

AlignInputs ==
    { [fn |-> "align", op |-> op, df |-> df, tides |-> tides] :
        op \in {"wrapper", "script"},
        df \in SortedRows([dates : ObsStamps, val : AlignVals], MaxAlign),
        tides \in SortedRows([dates : ObsStamps, tide : TideVals], MaxAlign) }

\* index.round("10min")
RoundIndex(rows) == [k \in 1..Len(rows) |-> [rows[k] EXCEPT !.dates = Round10(@)]]

\* df.index.intersection(tides.index): the labels of both, each once
RECURSIVE Intersection(_, _, _)
Intersection(df, tides, seen) ==
    IF df = <<>> THEN <<>>
    ELSE LET d == Head(df).dates
         IN  IF d \notin seen /\ \E k \in 1..Len(tides) : tides[k].dates = d
             THEN <<d>> \o Intersection(Tail(df), tides, seen \cup {d})
             ELSE Intersection(Tail(df), tides, seen)

\* rows.loc[labels]: for every label in turn, every row that carries it
RECURSIVE Loc(_, _)
Loc(rows, labels) ==
    IF labels = <<>> THEN <<>>
    ELSE LET at(r) == r.dates = Head(labels)
         IN  SelectSeq(rows, at) \o Loc(rows, Tail(labels))

\* 'if not all(df.index.round("10min") == tides.index)' and its branch; the
\* comparison of two indexes of different length raises
Align(df, tides) ==
    IF Len(df) # Len(tides) THEN [status |-> "error", df |-> df, tides |-> tides]
    ELSE IF \A k \in 1..Len(df) : Round10(df[k].dates) = tides[k].dates
    THEN [status |-> "aligned", df |-> df, tides |-> tides]
    ELSE LET common_dates == Intersection(RoundIndex(df), RoundIndex(tides), {})
         IN  [status |-> "aligned",
              df |-> Loc(RoundIndex(df), common_dates),
              tides |-> Loc(RoundIndex(tides), common_dates)]

\* the loop body for one transect: dates of the non-null values and
\* tides.tide.to_numpy()[~idx_nan], which raises when the mask has another
\* length than the tides
PairTides(df, tides) ==
    IF \A k \in 1..Len(df) : df[k].val = NaN THEN [status |-> "skipped", pairs |-> <<>>]
    ELSE IF Len(df) # Len(tides) THEN [status |-> "error", pairs |-> <<>>]
    ELSE LET both == [k \in 1..Len(df) |->
                        [val |-> df[k].val, obs |-> df[k].dates, tide |-> tides[k].dates]]
             present(p) == p.val # NaN
         IN  [status |-> "paired", pairs |-> SelectSeq(both, present)]

\* the stage up to the pairing; the wrapper leaves with status 1 on an empty
\* aligned table
AlignAndPair ==
    /\ args.fn = "align"
    /\ result.fn = "none"
    /\ LET a == Align(args.df, args.tides)
       IN  result' =
              IF a.status = "error"
              THEN [fn |-> "align", status |-> "error", df |-> a.df, tides |-> a.tides,
                    pairing |-> [status |-> "none", pairs |-> <<>>]]
              ELSE IF args.op = "wrapper" /\ Len(a.df) = 0
              THEN [fn |-> "align", status |-> "exit", df |-> a.df, tides |-> a.tides,
                    pairing |-> [status |-> "none", pairs |-> <<>>]]
              ELSE [fn |-> "align", status |-> "aligned", df |-> a.df, tides |-> a.tides,
                    pairing |-> PairTides(a.df, a.tides)]
    /\ UNCHANGED <<args, tableVars, storeVars>>

InitAlign == AtRest /\ args \in AlignInputs /\ result = NoResult
NextAlign == AlignAndPair
SpecAlign == InitAlign /\ [][NextAlign]_vars

\* C30: once the alignment has passed, the time series and the tide series
\* have the same length and, position by position, the same ten-minute
\* timestamp, and the tide paired with every non-null value of the transect
\* is the tide of that observation's rounded timestamp.
C30_TidesPairedByPosition ==
    (result.fn = "align" /\ result.status = "aligned") =>
        /\ Len(result.df) = Len(result.tides)
        /\ \A k \in 1..Len(result.df) :
              Round10(result.df[k].dates) = Round10(result.tides[k].dates)
        /\ result.pairing.status # "error"
        /\ \A k \in 1..Len(result.pairing.pairs) :
              Round10(result.pairing.pairs[k].obs) = Round10(result.pairing.pairs[k].tide)

====
